---- MODULE Spec2Model ----
(***************************************************************************)
(* Model of easy_run.py: the transfer of Canvas assignments to Todoist     *)
(* tasks.  Three specifications share the module's variables:              *)
(*   SpecPriority  applies find_priority to one assignment,                *)
(*   SpecMatch     applies check_existing_task to one assignment,          *)
(*   Spec          is a run of main(): project creation, the pass of       *)
(*                 transfer_assignments_to_todoist, the commit, the        *)
(*                 summary, and a second run of the script.                *)
(* Python's None is the empty sequence and a present value x is <<x>>, so  *)
(* that a nullable value compares with = as it does in Python.  Times are  *)
(* whole hours.                                                            *)
(***************************************************************************)
EXTENDS Integers, Sequences, FiniteSets, TLC

VARIABLES
    course_ids,            \* global course_ids: course id -> project name
    todoist_project_dict,  \* global todoist_project_dict: project name -> project id
    assignments,           \* global assignments, each with the 'priority' key once set
    todoist_tasks,         \* global todoist_tasks, as loaded from the service
    now,                   \* the current moment, in hours (UTC)
    utcoffset,             \* the local zone's offset from UTC, in hours
    pc,                    \* position of the run
    i,                     \* number of assignments the loop of the pass has dispatched
    summary,               \* the four lists of the pass, holding positions of assignments
    calls,                 \* add_item / update calls made by the pass, in order
    queue,                 \* changes the client holds until commit
    service_items,         \* the items the Todoist service holds
    service_projects,      \* the projects the Todoist service holds: name -> id
    commits,               \* number of commit() calls made by the pass
    commit_result,         \* how the commit of the pass ended
    console,               \* what the run has printed about its outcome
    run,                   \* 1 for the first run of the script, 2 for the second
    ret                    \* the last value returned by check_existing_task

vars == <<course_ids, todoist_project_dict, assignments, todoist_tasks, now, utcoffset,
          pc, i, summary, calls, queue, service_items, service_projects, commits,
          commit_result, console, run, ret>>

None == <<>>
Some(x) == <<x>>

----------------------------------------------------------------------------
(* Strings *)

\* str.lower() on one character
LowerChar(c) ==
    CASE c = "A" -> "a" [] c = "B" -> "b" [] c = "C" -> "c" [] c = "D" -> "d"
      [] c = "E" -> "e" [] c = "F" -> "f" [] c = "G" -> "g" [] c = "H" -> "h"
      [] c = "I" -> "i" [] c = "J" -> "j" [] c = "K" -> "k" [] c = "L" -> "l"
      [] c = "M" -> "m" [] c = "N" -> "n" [] c = "O" -> "o" [] c = "P" -> "p"
      [] c = "Q" -> "q" [] c = "R" -> "r" [] c = "S" -> "s" [] c = "T" -> "t"
      [] c = "U" -> "u" [] c = "V" -> "v" [] c = "W" -> "w" [] c = "X" -> "x"
      [] c = "Y" -> "y" [] c = "Z" -> "z" [] OTHER -> c

RECURSIVE lower(_)
lower(s) ==
    IF s = "" THEN "" ELSE LowerChar(SubSeq(s, 1, 1)) \o lower(SubSeq(s, 2, Len(s)))

\* keyword in s
Contains(keyword, s) ==
    \E j \in 1..(Len(s) - Len(keyword) + 1) : SubSeq(s, j, j + Len(keyword) - 1) = keyword

make_task_title(assignment) ==
    "[" \o assignment.name \o "](" \o assignment.html_url \o ")"

----------------------------------------------------------------------------
(* find_priority *)

\* the keywords dict, in its iteration order
keywords ==
    << [p |-> 4, words |-> <<"exam", "test", "midterm", "final">>],
       [p |-> 3, words |-> <<"project", "paper", "quiz", "homework", "discussion">>],
       [p |-> 2, words |-> <<"reading", "assignment">>] >>

HoursPerDay == 24
UrgentDays == 3

AnyKeyword(words, s) == \E k \in 1..Len(words) : Contains(words[k], s)

\* the loop over keywords.items(), from entry k on, with the priority so far
RECURSIVE KeywordLoop(_, _, _)
KeywordLoop(assignment_name, priority, k) ==
    IF k > Len(keywords) THEN priority
    ELSE KeywordLoop(assignment_name,
                     IF keywords[k].p > priority
                        /\ AnyKeyword(keywords[k].words, lower(assignment_name))
                     THEN keywords[k].p ELSE priority,
                     k + 1)

\* datetime.now(): the naive local wall clock
datetime_now == now + utcoffset

\* datetime.strptime(s, '%Y-%m-%dT%H:%M:%SZ'): the naive reading of a UTC time string
strptime(due_at) == due_at[1]

\* timedelta.days: whole days, rounded down
days(delta) == delta \div HoursPerDay

DueSoon(due_at) ==
    due_at # None /\ days(strptime(due_at) - datetime_now) < UrgentDays

find_priority(assignment) ==
    LET priority == KeywordLoop(assignment.name, 1, 1)
    IN  IF DueSoon(assignment.due_at) THEN 4 ELSE priority

----------------------------------------------------------------------------
(* check_existing_task *)

\* task['content'] == task_title and task['project_id'] == project_id
MatchesIgnoringProject(task, task_title, project_id) ==
    task.content = task_title

Matches(task, task_title, project_id) ==
    task.content = task_title /\ task.project_id = project_id

\* (task['due'] and task['due']['date'] != assignment['due_at'])
\*     or task['priority'] != assignment['priority']
OutOfSyncPriorityOnly(task, assignment) ==
    task.priority # assignment.priority

OutOfSync(task, assignment) ==
    \/ (task.due # None /\ task.due[1].date # assignment.due_at)
    \/ task.priority # assignment.priority

\* the for loop over todoist_tasks from position k on; item is the position of
\* the task object returned
RECURSIVE ScanTasks(_, _, _, _, _)
ScanTasks(tasks, assignment, project_id, k, is_added) ==
    IF k > Len(tasks)
    THEN [is_added |-> is_added, is_synced |-> TRUE, item |-> None]
    ELSE IF Matches(tasks[k], make_task_title(assignment), project_id)
         THEN IF OutOfSync(tasks[k], assignment)
              THEN [is_added |-> TRUE, is_synced |-> FALSE, item |-> Some(k)]
              ELSE ScanTasks(tasks, assignment, project_id, k + 1, TRUE)
         ELSE ScanTasks(tasks, assignment, project_id, k + 1, is_added)

check_existing_task(assignment, project_id) ==
    ScanTasks(todoist_tasks, assignment, project_id, 1, FALSE)

----------------------------------------------------------------------------
(* Inputs of a run *)

MaxAssignments == 2
MaxTasks == 2

\* what the clock and the zone of the machine may be
Moments == {0}
UtcOffsets == {0}

\* config['courses'] / the picker: the selected courses and their project names
CourseSelections == { "101" :> "Math" }

\* course ids the Canvas response may carry: the id asked for, or the service's
\* own form of it
CanvasCourseIds == {"101", "999"}

\* todoist_api.state['projects'] before the run
ProjectDicts == { "Inbox" :> 1, ("Inbox" :> 1) @@ ("Math" :> 2) }

AssignmentNames == {"Essay"}
DueDates == {None, Some(24)}
SubmittedAts == {None, Some(0)}
TaskDueDates == {None, Some([date |-> Some(24)])}
TaskPriorities == {1}

\* a Canvas assignment's html_url names the assignment: the k-th has its own
html_url(k) == "u" \o ToString(k)

\* the k-th assignment of a response; priority 0 stands for the 'priority' key
\* not being set yet
AssignmentsAt(k) ==
    { [name |-> n, html_url |-> html_url(k), due_at |-> d, course_id |-> c,
       submission |-> [submitted_at |-> sub], priority |-> 0] :
        n \in AssignmentNames, d \in DueDates, c \in CanvasCourseIds, sub \in SubmittedAts }

AssignmentLists ==
    UNION { { s \in [1..n -> UNION {AssignmentsAt(k) : k \in 1..n}] :
                \A k \in 1..n : s[k] \in AssignmentsAt(k) } : n \in 0..MaxAssignments }

\* the tasks a user may hold: titled like the first assignment, in any project
TasksIn(project_ids) ==
    { [content |-> make_task_title([name |-> n, html_url |-> html_url(1)]),
       project_id |-> pid, due |-> due, priority |-> pr] :
        n \in AssignmentNames, pid \in project_ids, due \in TaskDueDates,
        pr \in TaskPriorities }

TaskLists(project_ids) ==
    UNION { [1..n -> TasksIn(project_ids)] : n \in 0..MaxTasks }

Range(f) == { f[x] : x \in DOMAIN f }

\* what a run has printed about its outcome: nothing yet, a traceback, or the
\* counts of the short summary followed by "# Finished!"
Printed(status) ==
    [status |-> status, added |-> 0, updated |-> 0, is_submitted |-> 0, up_to_date |-> 0]

EmptySummary == [added |-> <<>>, updated |-> <<>>, is_submitted |-> <<>>, up_to_date |-> <<>>]

----------------------------------------------------------------------------
(* The run of main() *)

Init ==
    /\ course_ids = << >>
    /\ todoist_project_dict = << >>
    /\ assignments = << >>
    /\ todoist_tasks = << >>
    /\ now \in Moments
    /\ utcoffset \in UtcOffsets
    /\ pc = "load"
    /\ i = 0
    /\ summary = EmptySummary
    /\ calls = << >>
    /\ queue = << >>
    /\ service_projects \in ProjectDicts
    /\ service_items \in TaskLists(Range(service_projects))
    /\ commits = 0
    /\ commit_result = "none"
    /\ console = Printed("none")
    /\ run = 1
    /\ ret = None

\* select_courses, load_todoist_projects, load_assignments, load_todoist_tasks
load ==
    /\ pc = "load"
    /\ run = 1
    /\ course_ids' \in CourseSelections
    /\ todoist_project_dict' = service_projects
    /\ assignments' \in AssignmentLists
    /\ todoist_tasks' = service_items
    /\ pc' = "create_todoist_projects"
    /\ UNCHANGED <<now, utcoffset, i, summary, calls, queue, service_items,
                   service_projects, commits, commit_result, console, run, ret>>

\* the id the service gives the n-th project added
NewProjectId(dict, n) ==
    LET ids == Range(dict)
        top == IF ids = {} THEN 0 ELSE CHOOSE m \in ids : \A x \in ids : x <= m
    IN  top + n

\* the loop of create_todoist_projects over the names left to handle
RECURSIVE CreateProjects(_, _)
CreateProjects(dict, names) ==
    IF names = {} THEN dict
    ELSE LET course_name == CHOOSE n \in names : TRUE
         IN  CreateProjects(
                 IF course_name \notin DOMAIN dict
                 THEN dict @@ (course_name :> NewProjectId(dict, 1))
                 ELSE dict,
                 names \ {course_name})

create_todoist_projects ==
    /\ pc = "create_todoist_projects"
    /\ todoist_project_dict' = CreateProjects(todoist_project_dict, Range(course_ids))
    /\ service_projects' = CreateProjects(service_projects, Range(course_ids))
    /\ pc' = "transfer"
    /\ UNCHANGED <<course_ids, assignments, todoist_tasks, now, utcoffset, i, summary,
                   calls, queue, service_items, commits, commit_result, console, run, ret>>

----------------------------------------------------------------------------
(* transfer_assignments_to_todoist *)

\* add_new_task: the add_item call
add_new_task(c_a, t_proj_id) ==
    [op |-> "add", content |-> make_task_title(c_a), project_id |-> t_proj_id,
     date_string |-> c_a.due_at, priority |-> c_a.priority, item |-> None]

\* update_task: t_task.update(due={'date': c_d}, priority=c_p)
update_task(c_a, t_task) ==
    [op |-> "update", content |-> "", project_id |-> 0,
     date_string |-> c_a.due_at, priority |-> c_a.priority, item |-> t_task]

\* the if / elif / else of the loop body: the list the assignment is filed under
FileUnder(r, c_a) ==
    IF ~r.is_added
    THEN IF c_a.submission.submitted_at = None THEN "added" ELSE "is_submitted"
    ELSE IF ~r.is_synced THEN "updated" ELSE "up_to_date"

\* the calls the loop body makes for a branch
CallsOfMutant(branch, c_a, t_proj_id, r) ==
    IF branch = "added" THEN <<add_new_task(c_a, t_proj_id)>>
    ELSE IF branch = "updated" THEN <<update_task(c_a, r.item)>>
    ELSE IF branch = "is_submitted" THEN <<add_new_task(c_a, t_proj_id)>>
    ELSE << >>

CallsOf(branch, c_a, t_proj_id, r) ==
    IF branch = "added" THEN <<add_new_task(c_a, t_proj_id)>>
    ELSE IF branch = "updated" THEN <<update_task(c_a, r.item)>>
    ELSE << >>

\* course_ids[str(c_a['course_id'])] and todoist_project_dict[c_cn] find their keys
MappingsResolve(c_a) ==
    /\ c_a.course_id \in DOMAIN course_ids
    /\ course_ids[c_a.course_id] \in DOMAIN todoist_project_dict

\* one turn of the loop over assignments
transfer_step ==
    /\ pc = "transfer"
    /\ i < Len(assignments)
    /\ MappingsResolve(assignments[i + 1])
    /\ LET t_proj_id == todoist_project_dict[course_ids[assignments[i + 1].course_id]]
           c_a == [assignments[i + 1] EXCEPT !.priority = find_priority(assignments[i + 1])]
           r == check_existing_task(c_a, t_proj_id)
           branch == FileUnder(r, c_a)
           made == CallsOf(branch, c_a, t_proj_id, r)
       IN  /\ assignments' = [assignments EXCEPT ![i + 1] = c_a]
           /\ ret' = Some(r)
           /\ summary' = [summary EXCEPT ![branch] = Append(@, i + 1)]
           /\ calls' = calls \o made
           /\ queue' = queue \o made
    /\ i' = i + 1
    /\ UNCHANGED <<course_ids, todoist_project_dict, todoist_tasks, now, utcoffset, pc,
                   service_items, service_projects, commits, commit_result, console, run>>

\* a dict lookup of the loop body raises KeyError, which nothing catches
transfer_KeyError ==
    /\ pc = "transfer"
    /\ i < Len(assignments)
    /\ ~MappingsResolve(assignments[i + 1])
    /\ pc' = "crashed"
    /\ console' = Printed("traceback")
    /\ UNCHANGED <<course_ids, todoist_project_dict, assignments, todoist_tasks, now,
                   utcoffset, i, summary, calls, queue, service_items, service_projects,
                   commits, commit_result, run, ret>>

\* the service's item for an add_item call
NewItem(c) ==
    [content |-> c.content, project_id |-> c.project_id,
     due |-> IF c.date_string = None THEN None ELSE Some([date |-> c.date_string]),
     priority |-> c.priority]

\* the service's items once the queued changes are applied, from change k on
RECURSIVE Flush(_, _, _)
Flush(items, q, k) ==
    IF k > Len(q) THEN items
    ELSE Flush(IF q[k].op = "add"
               THEN Append(items, NewItem(q[k]))
               ELSE [items EXCEPT ![q[k].item[1]] =
                        [@ EXCEPT !.due = Some([date |-> q[k].date_string]),
                                  !.priority = q[k].priority]],
               q, k + 1)

\* how todoist_api.commit() may end
CommitOutcomes == {"ok", "error_returned", "raised"}

\* todoist_api.commit() after the loop; its return value is not read
transfer_commit ==
    /\ pc = "transfer"
    /\ i = Len(assignments)
    /\ \E outcome \in CommitOutcomes :
        /\ commit_result' = outcome
        /\ service_items' = IF outcome = "ok" THEN Flush(service_items, queue, 1)
                            ELSE service_items
        /\ pc' = IF outcome = "raised" THEN "crashed" ELSE "summary"
        /\ console' = IF outcome = "raised" THEN Printed("traceback") ELSE console
    /\ queue' = << >>
    /\ commits' = commits + 1
    /\ UNCHANGED <<course_ids, todoist_project_dict, assignments, todoist_tasks, now,
                   utcoffset, i, summary, calls, service_projects, run, ret>>

\* the short summary, then main()'s "# Finished!"
print_summary ==
    /\ pc = "summary"
    /\ console' = [added |-> Len(summary.added), updated |-> Len(summary.updated),
                   is_submitted |-> Len(summary.is_submitted),
                   up_to_date |-> Len(summary.up_to_date), status |-> "finished"]
    /\ pc' = "finished"
    /\ UNCHANGED <<course_ids, todoist_project_dict, assignments, todoist_tasks, now,
                   utcoffset, i, summary, calls, queue, service_items, service_projects,
                   commits, commit_result, run, ret>>

\* the script is started again after a run whose commit went through: the same
\* courses and assignments, the projects and tasks as the service now holds them
second_run ==
    /\ pc = "finished"
    /\ run = 1
    /\ commit_result = "ok"
    /\ run' = 2
    /\ todoist_project_dict' = service_projects
    /\ assignments' = [k \in 1..Len(assignments) |-> [assignments[k] EXCEPT !.priority = 0]]
    /\ todoist_tasks' = service_items
    /\ pc' = "create_todoist_projects"
    /\ i' = 0
    /\ summary' = EmptySummary
    /\ calls' = << >>
    /\ queue' = << >>
    /\ commits' = 0
    /\ commit_result' = "none"
    /\ console' = Printed("none")
    /\ ret' = None
    /\ UNCHANGED <<course_ids, now, utcoffset, service_items, service_projects>>

Next ==
    \/ load
    \/ create_todoist_projects
    \/ transfer_step
    \/ transfer_KeyError
    \/ transfer_commit
    \/ print_summary
    \/ second_run

Spec == Init /\ [][Next]_vars

----------------------------------------------------------------------------
(* find_priority on its own *)

PriorityNames ==
    {"Essay", "Final Exam", "Latest news", "Quiz 2", "Reading Assignment",
     "MIDTERM project", "Homework reading", "lab"}
PriorityDueDates == {None} \cup { Some(t) : t \in {-30, 0, 47, 70, 71, 72, 73, 74, 100} }
PriorityMoments == {0, 1}
PriorityUtcOffsets == {-8, 0, 1}

InitPriority ==
    /\ course_ids = ("101" :> "Math")
    /\ todoist_project_dict = ("Math" :> 2)
    /\ assignments \in
          { << [name |-> n, html_url |-> html_url(1), due_at |-> d, course_id |-> "101",
                submission |-> [submitted_at |-> None], priority |-> 0] >> :
              n \in PriorityNames, d \in PriorityDueDates }
    /\ todoist_tasks = << >>
    /\ now \in PriorityMoments
    /\ utcoffset \in PriorityUtcOffsets
    /\ pc = "find_priority"
    /\ i = 0
    /\ summary = EmptySummary
    /\ calls = << >>
    /\ queue = << >>
    /\ service_projects = ("Math" :> 2)
    /\ service_items = << >>
    /\ commits = 0
    /\ commit_result = "none"
    /\ console = Printed("none")
    /\ run = 1
    /\ ret = None

\* priority = find_priority(c_a); c_a['priority'] = priority
call_find_priority ==
    /\ pc = "find_priority"
    /\ assignments' = [assignments EXCEPT ![1].priority = find_priority(assignments[1])]
    /\ pc' = "returned"
    /\ UNCHANGED <<course_ids, todoist_project_dict, todoist_tasks, now, utcoffset, i,
                   summary, calls, queue, service_items, service_projects, commits,
                   commit_result, console, run, ret>>

NextPriority == call_find_priority

SpecPriority == InitPriority /\ [][NextPriority]_vars

----------------------------------------------------------------------------
(* check_existing_task on its own *)

MatchNames == {"Essay", "Quiz"}
MatchDueDates == {None, Some(24), Some(48)}
MatchPriorities == {1, 4}
MatchProjectIds == {1, 2}

MatchTasks ==
    { [content |-> make_task_title([name |-> n, html_url |-> html_url(1)]),
       project_id |-> pid, due |-> due, priority |-> pr] :
        n \in MatchNames, pid \in MatchProjectIds,
        due \in {None} \cup { Some([date |-> d]) : d \in MatchDueDates \ {None} },
        pr \in MatchPriorities }

\* the project id the caller hands to check_existing_task
t_proj_id == todoist_project_dict[course_ids["101"]]

InitMatch ==
    /\ course_ids = ("101" :> "Math")
    /\ todoist_project_dict = ("Math" :> 2)
    /\ assignments \in
          { << [name |-> "Essay", html_url |-> html_url(1), due_at |-> d,
                course_id |-> "101", submission |-> [submitted_at |-> None],
                priority |-> pr] >> :
              d \in MatchDueDates, pr \in MatchPriorities }
    /\ todoist_tasks \in UNION { [1..n -> MatchTasks] : n \in 0..MaxTasks }
    /\ now = 0
    /\ utcoffset = 0
    /\ pc = "check_existing_task"
    /\ i = 0
    /\ summary = EmptySummary
    /\ calls = << >>
    /\ queue = << >>
    /\ service_projects = ("Math" :> 2)
    /\ service_items = todoist_tasks
    /\ commits = 0
    /\ commit_result = "none"
    /\ console = Printed("none")
    /\ run = 1
    /\ ret = None

\* is_added, is_synced, item = check_existing_task(c_a, t_proj_id)
call_check_existing_task ==
    /\ pc = "check_existing_task"
    /\ ret' = Some(check_existing_task(assignments[1], t_proj_id))
    /\ pc' = "returned"
    /\ UNCHANGED <<course_ids, todoist_project_dict, assignments, todoist_tasks, now,
                   utcoffset, i, summary, calls, queue, service_items, service_projects,
                   commits, commit_result, console, run>>

NextMatch == call_check_existing_task

SpecMatch == InitMatch /\ [][NextMatch]_vars

----------------------------------------------------------------------------
(* Properties *)

Buckets == {"added", "updated", "is_submitted", "up_to_date"}

\* the run is past the pass: it went on to the summary or ended in a traceback
PassOver == pc \in {"summary", "finished", "crashed"}

\* how many times position a is filed in list b
TimesIn(b, a) == Cardinality({ j \in 1..Len(summary[b]) : summary[b][j] = a })

TotalFiled ==
    Len(summary.added) + Len(summary.updated)
        + Len(summary.is_submitted) + Len(summary.up_to_date)

FiledOnce(a) ==
    \E b \in Buckets : TimesIn(b, a) = 1 /\ \A c \in Buckets \ {b} : TimesIn(c, a) = 0

\* C1: after a pass, every input assignment is in exactly one of the four
\* lists of the summary, and the sizes of the lists sum to the number of inputs.
C1_EveryAssignmentInOneBucket ==
    PassOver =>
        /\ \A a \in 1..Len(assignments) : FiledOnce(a)
        /\ TotalFiled = Len(assignments)

\* The same for the assignments the loop has dispatched so far: the lists are a
\* partition of 1..i at every point of every run.
DispatchedAreFiledOnce ==
    /\ \A a \in 1..i : FiledOnce(a)
    /\ TotalFiled = i

\* C2: the second run over the same assignments and the tasks the service
\* holds after the first run's commit adds nothing and updates nothing.
C2_SecondRunAddsAndUpdatesNothing ==
    run = 2 => summary.added = << >> /\ summary.updated = << >>

\* positions of the tasks that match the assignment by title and project
MatchingTasks(assignment, project_id) ==
    { k \in 1..Len(todoist_tasks) :
        /\ todoist_tasks[k].content = make_task_title(assignment)
        /\ todoist_tasks[k].project_id = project_id }

FirstMatch(assignment, project_id) ==
    CHOOSE k \in MatchingTasks(assignment, project_id) :
        \A m \in MatchingTasks(assignment, project_id) : k <= m

\* C3: with several matching tasks the first in scan order decides is_synced
\* and the task handed to update_task; later tasks do not change the result.
C3_FirstMatchWins ==
    (pc = "returned" /\ MatchingTasks(assignments[1], t_proj_id) # {}) =>
        LET first == todoist_tasks[FirstMatch(assignments[1], t_proj_id)]
            stale == \/ (first.due # None /\ first.due[1].date # assignments[1].due_at)
                     \/ first.priority # assignments[1].priority
        IN  /\ ret[1].is_synced = ~stale
            /\ ret[1].item # None => ret[1].item = Some(FirstMatch(assignments[1], t_proj_id))

\* C4: an assignment whose course or project name has no mapping does not end
\* the pass: the run still reaches the commit.
C4_MissingMappingIsLocal ==
    (pc = "crashed" /\ \E k \in 1..Len(assignments) : ~MappingsResolve(assignments[k]))
        => commits = 1

\* C5: a run whose pass made add or update calls and whose commit failed does
\* not print the counts of the short summary and "# Finished!".
C5_FailedCommitIsReported ==
    (calls # << >> /\ commit_result \in {"error_returned", "raised"})
        => console.status # "finished"

\* C6: the pass calls commit exactly once, after the last assignment was
\* dispatched, and until then the service holds the tasks it held at the load.
C6_OneCommitAfterTheLastAssignment ==
    /\ PassOver => commits = 1
    /\ commits >= 1 => i = Len(assignments)
    /\ (pc = "transfer" /\ commits = 0) => service_items = todoist_tasks

\* the due date a task carries, None when it has none
TaskDueDate(task) == IF task.due = None THEN None ELSE task.due[1].date

\* C7: a matching task whose due date differs from the assignment's due_at
\* makes is_synced false, also when the priorities agree.
C7_DueDateDiffers_Original ==
    pc = "returned" =>
        \A k \in MatchingTasks(assignments[1], t_proj_id) :
            TaskDueDate(todoist_tasks[k]) # assignments[1].due_at => ~ret[1].is_synced

\* C7 (amended): a matching task that has a due date, and whose due date differs
\* from the assignment's due_at, makes is_synced false, also when the
\* priorities agree.
C7_PresentDueDateDiffers ==
    pc = "returned" =>
        \A k \in MatchingTasks(assignments[1], t_proj_id) :
            (todoist_tasks[k].due # None
                /\ TaskDueDate(todoist_tasks[k]) # assignments[1].due_at)
            => ~ret[1].is_synced

C7_Witness ==
    /\ pc = "returned"
    /\ ~ret[1].is_synced
    /\ \E k \in MatchingTasks(assignments[1], t_proj_id) :
        /\ todoist_tasks[k].due # None
        /\ TaskDueDate(todoist_tasks[k]) # assignments[1].due_at
        /\ todoist_tasks[k].priority = assignments[1].priority
    /\ \A k \in MatchingTasks(assignments[1], t_proj_id) :
        todoist_tasks[k].priority = assignments[1].priority

\* the priority the description of the classifier gives
TierMatches(t, name) ==
    \E k \in 1..Len(keywords[t].words) : Contains(keywords[t].words[k], lower(name))

ReferencePriority(name, due_at) ==
    IF (due_at # None /\ due_at[1] - now < UrgentDays * HoursPerDay) \/ TierMatches(1, name)
    THEN 4
    ELSE IF TierMatches(2, name) THEN 3
    ELSE IF TierMatches(3, name) THEN 2
    ELSE 1

\* C8: find_priority is 4 when the due date is fewer than 3 days from the
\* current moment or the name has a tier-4 keyword, else the highest tier (3 or
\* 2) the name matches, else 1.
C8_PriorityEqualsReference ==
    pc = "returned" =>
        assignments[1].priority = ReferencePriority(assignments[1].name, assignments[1].due_at)

\* C9: is_added is true exactly when some task has the assignment's title as
\* content and the target project id; the same title in another project does
\* not count.
C9_ExistsIffTitleAndProject ==
    pc = "returned" =>
        (ret[1].is_added <=> MatchingTasks(assignments[1], t_proj_id) # {})

C9_Witness ==
    /\ pc = "returned"
    /\ ~ret[1].is_added
    /\ \E k \in 1..Len(todoist_tasks) :
        /\ todoist_tasks[k].content = make_task_title(assignments[1])
        /\ todoist_tasks[k].project_id # t_proj_id

AddsMade == SelectSeq(calls, LAMBDA c : c.op = "add")
UpdatesMade == SelectSeq(calls, LAMBDA c : c.op = "update")

ProjectIdOf(a) == todoist_project_dict[course_ids[assignments[a].course_id]]

\* C10: the calls made are exactly one add_item per assignment filed under
\* 'added', with its title, project id, due date and computed priority, and one
\* update per assignment filed under 'updated', on a task that matches it;
\* assignments filed under the other two lists cause no call.
C10_SideEffectsMatchBuckets ==
    /\ Len(calls) = Len(summary.added) + Len(summary.updated)
    /\ Len(AddsMade) = Len(summary.added)
    /\ Len(UpdatesMade) = Len(summary.updated)
    /\ \A j \in 1..Len(summary.added) :
        LET a == summary.added[j]
        IN  /\ AddsMade[j].content = make_task_title(assignments[a])
            /\ AddsMade[j].project_id = ProjectIdOf(a)
            /\ AddsMade[j].date_string = assignments[a].due_at
            /\ AddsMade[j].priority = find_priority(assignments[a])
    /\ \A j \in 1..Len(summary.updated) :
        LET a == summary.updated[j]
        IN  /\ UpdatesMade[j].item # None
            /\ UpdatesMade[j].item[1] \in MatchingTasks(assignments[a], ProjectIdOf(a))
            /\ UpdatesMade[j].date_string = assignments[a].due_at
            /\ UpdatesMade[j].priority = find_priority(assignments[a])

C10_Witness ==
    /\ pc = "finished"
    /\ summary.added # << >>
    /\ summary.updated # << >>
    /\ Len(calls) = 2

====
